---- MODULE Spec2Model ----
(***************************************************************************)
(* Model of Backend/retrieval.py: the extractor hand-off of __main__ and   *)
(* find_similar_properties (size / location / price filter, TF-IDF         *)
(* vectorisation, flat L2 nearest-neighbour search, dedup and top-5).      *)
(*                                                                         *)
(* Strings that the code inspects character by character (locations) are   *)
(* sequences of one-character strings.  Amenities are sequences of amenity *)
(* strings; "" is the amenity that load_cleaned_data produces for a        *)
(* listing without amenities ("".split(",") = [""]).                       *)
(* Real numbers are fixed point: prices are whole currency units and the   *)
(* 1.05 band is compared after scaling by 100; TF-IDF weights and vector   *)
(* components are in thousandths, rounded down where float32 rounds to the *)
(* nearest value.  The columns description and building_name are carried   *)
(* through unchanged by the code and are left out of the rows.             *)
(***************************************************************************)
EXTENDS Integers, Sequences, FiniteSets, TLC

VARIABLES df, pc, query, df_filtered, result

vars == <<df, pc, query, df_filtered, result>>

(***************************************************************************)
(* Bounds of the model.                                                    *)
(***************************************************************************)
MaxRows == 2
MaxRank == 6
MaxPar == 2

CallIds == {1, 2}

(***************************************************************************)
(* Program constants.                                                      *)
(***************************************************************************)
SearchK == 10
TopN == 5
BandPercent == 105

SizeReason == "No properties found with the given size."
LocationReason == "No properties found in the specified location."
PriceReason == "No properties found within the price range."

Columns == {"link", "size", "price", "location", "amenities"}

(***************************************************************************)
(* Strings.                                                                *)
(***************************************************************************)
LowerCh(ch) ==
  CASE ch = "G" -> "g"
    [] ch = "O" -> "o"
    [] ch = "A" -> "a"
    [] ch = "N" -> "n"
    [] ch = "P" -> "p"
    [] ch = "U" -> "u"
    [] OTHER -> ch

\* str.lower()
Lower(s) == [i \in 1..Len(s) |-> LowerCh(s[i])]

\* One pattern character of a regular expression against one character:
\* "." matches any character, every other character of the model's alphabet
\* matches itself.
ReMatchCh(p, ch) == p = "." \/ p = ch

\* re.search(pat, s): the pattern matches at some offset of s.
ReSearch(pat, s) ==
  \E off \in 0..(Len(s) - Len(pat)) :
    \A i \in 1..Len(pat) : ReMatchCh(pat[i], s[off + i])

(***************************************************************************)
(* Data frames are sequences of rows (records); position = iloc position.  *)
(***************************************************************************)
RECURSIVE Links(_)
Links(rows) ==
  IF rows = <<>> THEN <<>> ELSE <<Head(rows).link>> \o Links(Tail(rows))

LinkSet(rows) == {rows[i].link : i \in 1..Len(rows)}

\* DataFrame.drop_duplicates(subset=["link"], keep="first")
DropDuplicates(rows) ==
  LET keep(i) == \A j \in 1..(i - 1) : rows[j].link # rows[i].link
      RECURSIVE from(_)
      from(i) == IF i > Len(rows) THEN <<>>
                 ELSE (IF keep(i) THEN <<rows[i]>> ELSE <<>>) \o from(i + 1)
  IN from(1)

\* df[df["size"] == user_size]
SizeFilter(rows, user_size) ==
  SelectSeq(rows, LAMBDA r : r.size = user_size)

\* df_filtered[df_filtered["location"] == user_location.lower()]
ExactMatch(rows, user_location) ==
  SelectSeq(rows, LAMBDA r : r.location = Lower(user_location))

\* df_filtered[df_filtered["location"].str.contains(user_location.lower(), na=False)]
\* (str.contains searches a regular expression: regex=True is the default)
PartialMatch(rows, user_location) ==
  SelectSeq(rows, LAMBDA r : ReSearch(Lower(user_location), r.location))

\* keeps the exact matches only
LocationFilterExactOnly(rows, user_location) ==
  DropDuplicates(ExactMatch(rows, user_location))

\* pd.concat([exact_match, partial_match]).drop_duplicates(subset=["link"], keep="first")
LocationFilter(rows, user_location) ==
  DropDuplicates(ExactMatch(rows, user_location) \o PartialMatch(rows, user_location))

\* open upper bound
PriceFilterStrict(rows, user_price) ==
  SelectSeq(rows, LAMBDA r : r.price * 100 < user_price * BandPercent)

\* df_filtered[df_filtered["price"] <= user_price * 1.05]
PriceFilter(rows, user_price) ==
  SelectSeq(rows, LAMBDA r : r.price * 100 <= user_price * BandPercent)

(***************************************************************************)
(* Amenity text: " ".join and the TfidfVectorizer tokenizer.               *)
(***************************************************************************)
\* " ".join(x)
RECURSIVE Join(_)
Join(x) ==
  IF x = <<>> THEN <<>>
  ELSE IF Len(x) = 1 THEN x[1]
  ELSE x[1] \o <<" ">> \o Join(Tail(x))

\* \w of the token pattern: letters are word characters, blank and "." are not.
IsWordCh(ch) == ch \notin {" ", ".", ","}

\* TfidfVectorizer's analyzer: lowercase, then the tokens of
\* token_pattern (?u)\b\w\w+\b, i.e. the maximal runs of two or more word
\* characters, in order of appearance.
Tokenize(text) ==
  LET s == Lower(text)
      keep(run) == IF Len(run) >= 2 THEN <<run>> ELSE <<>>
      RECURSIVE scan(_, _)
      scan(i, run) ==
        IF i > Len(s) THEN keep(run)
        ELSE IF IsWordCh(s[i]) THEN scan(i + 1, Append(run, s[i]))
        ELSE keep(run) \o scan(i + 1, <<>>)
  IN scan(1, <<>>)

SeqRange(q) == {q[i] : i \in 1..Len(q)}

\* the analysed documents: one token sequence per document
Analyze(docs) == [i \in 1..Len(docs) |-> Tokenize(docs[i])]

\* vectorizer.vocabulary_ after fit: the tokens of all documents
Vocabulary(docs) == UNION {SeqRange(Tokenize(docs[i])) : i \in 1..Len(docs)}

\* term count of token t in an analysed document
TermCount(toks, t) == Cardinality({i \in 1..Len(toks) : toks[i] = t})

\* number of analysed documents that hold token t
DocFreq(tokdocs, t) ==
  Cardinality({i \in 1..Len(tokdocs) : \E k \in 1..Len(tokdocs[i]) : tokdocs[i][k] = t})

\* natural logarithm of 1..16 in thousandths
LnMilli ==
  <<0, 693, 1099, 1386, 1609, 1792, 1946, 2079,
    2197, 2303, 2398, 2485, 2565, 2639, 2708, 2773>>

\* smooth idf of TfidfTransformer: ln((1 + n) / (1 + df)) + 1, in thousandths
Idf(n, dfreq) == LnMilli[1 + n] - LnMilli[1 + dfreq] + 1000

\* integer square root (floor), by bisection
RECURSIVE SqrtBetween(_, _, _)
SqrtBetween(x, lo, hi) ==
  IF hi - lo <= 1 THEN lo
  ELSE LET mid == (lo + hi) \div 2
       IN IF mid * mid <= x THEN SqrtBetween(x, mid, hi)
          ELSE SqrtBetween(x, lo, mid)

ISqrt(x) == SqrtBetween(x, 0, 46340)

RECURSIVE SumOver(_, _)
SumOver(f, S) ==
  IF S = {} THEN 0
  ELSE LET t == CHOOSE u \in S : TRUE IN f[t] + SumOver(f, S \ {t})

\* TfidfVectorizer().fit_transform(docs).toarray(): one row per document over
\* the vocabulary, tf * idf, L2-normalised (norm="l2"); a document without
\* tokens is the zero row.  Components in thousandths.
TfidfMatrix(docs) ==
  LET tokdocs == Analyze(docs)
      V == UNION {SeqRange(tokdocs[i]) : i \in 1..Len(tokdocs)}
      n == Len(docs)
      idf == [t \in V |-> Idf(n, DocFreq(tokdocs, t))]
      raw(i) == [t \in V |-> TermCount(tokdocs[i], t) * idf[t]]
      unit(w) ==
        LET norm == ISqrt(SumOver([t \in V |-> w[t] * w[t]], V))
        IN [t \in V |-> IF norm = 0 THEN 0 ELSE (w[t] * 1000) \div norm]
  IN [i \in 1..n |-> unit(raw(i))]

\* squared L2 distance of two rows of the matrix (faiss fvec_L2sqr)
L2Sqr(a, b) ==
  SumOver([t \in DOMAIN a |-> (a[t] - b[t]) * (a[t] - b[t])], DOMAIN a)

\* farthest first
SearchFarthestFirst(embeddings, user_embedding, k) ==
  LET n == Len(embeddings)
      dist == [i \in 1..n |-> L2Sqr(embeddings[i], user_embedding)]
      before(i, j) == dist[i] > dist[j] \/ (dist[i] = dist[j] /\ i <= j)
      RECURSIVE nearest(_, _)
      nearest(S, m) ==
        IF m = 0 THEN <<>>
        ELSE IF S = {} THEN <<-1>> \o nearest(S, m - 1)
        ELSE LET i == CHOOSE a \in S : \A b \in S : before(a, b)
             IN <<i - 1>> \o nearest(S \ {i}, m - 1)
  IN nearest(1..n, k)

\* nearest first, ties by higher label
SearchTiesLast(embeddings, user_embedding, k) ==
  LET n == Len(embeddings)
      dist == [i \in 1..n |-> L2Sqr(embeddings[i], user_embedding)]
      before(i, j) == dist[i] < dist[j] \/ (dist[i] = dist[j] /\ i >= j)
      RECURSIVE nearest(_, _)
      nearest(S, m) ==
        IF m = 0 THEN <<>>
        ELSE IF S = {} THEN <<-1>> \o nearest(S, m - 1)
        ELSE LET i == CHOOSE a \in S : \A b \in S : before(a, b)
             IN <<i - 1>> \o nearest(S \ {i}, m - 1)
  IN nearest(1..n, k)

(***************************************************************************)
(* faiss.IndexFlatL2: add(embeddings); search(user_embedding, k).          *)
(* The labels are 0-based positions of the added rows, nearest first, ties *)
(* by lower label; when the index holds fewer than k rows the remaining    *)
(* labels are -1.                                                          *)
(***************************************************************************)
Search(embeddings, user_embedding, k) ==
  LET n == Len(embeddings)
      dist == [i \in 1..n |-> L2Sqr(embeddings[i], user_embedding)]
      before(i, j) == dist[i] < dist[j] \/ (dist[i] = dist[j] /\ i <= j)
      RECURSIVE nearest(_, _)
      nearest(S, m) ==
        IF m = 0 THEN <<>>
        ELSE IF S = {} THEN <<-1>> \o nearest(S, m - 1)
        ELSE LET i == CHOOSE a \in S : \A b \in S : before(a, b)
             IN <<i - 1>> \o nearest(S \ {i}, m - 1)
  IN nearest(1..n, k)

\* df_filtered.iloc[indices[0]]: positional take; a negative position counts
\* from the end, so -1 is the last row.
ILoc(rows, indices) ==
  [p \in 1..Len(indices) |->
     IF indices[p] < 0 THEN rows[Len(rows) + 1 + indices[p]]
     ELSE rows[indices[p] + 1]]

\* DataFrame.head(n)
HeadRows(rows, n) == SubSeq(rows, 1, IF Len(rows) < n THEN Len(rows) ELSE n)

\* top_results[["link", "size", "price", "location", "amenities", ...]]
Project(rows) == [i \in 1..Len(rows) |-> [c \in Columns |-> rows[i][c]]]

\* df_filtered["amenities_str"] = df_filtered["amenities"].apply(" ".join)
WithAmenitiesStr(rows) ==
  [i \in 1..Len(rows) |->
     [c \in Columns \cup {"amenities_str"} |->
        IF c = "amenities_str" THEN Join(rows[i].amenities) ELSE rows[i][c]]]

\* df_filtered["amenities_str"].tolist() + [user_amenities_str]
Corpus(rows, user_amenities) ==
  [i \in 1..Len(rows) |-> rows[i].amenities_str] \o <<Join(user_amenities)>>

\* _, indices = index.search(user_embedding, 10) over tfidf_matrix[:-1]
Indices(rows, user_amenities) ==
  LET m == TfidfMatrix(Corpus(rows, user_amenities))
      n == Len(rows)
  IN Search(SubSeq(m, 1, n), m[n + 1], SearchK)

\* without the final drop_duplicates
TopResultsNoDedup(rows, indices) == HeadRows(ILoc(rows, indices), TopN)

\* df_filtered.iloc[indices[0]].drop_duplicates(subset=["link"]).head(5)
TopResults(rows, indices) == HeadRows(DropDuplicates(ILoc(rows, indices)), TopN)

(***************************************************************************)
(* Inputs: listing stores as load_cleaned_data delivers them (locations    *)
(* lower-cased by preprocess_data, amenities split into a list) and the    *)
(* queries the extractor can hand over.                                    *)
(***************************************************************************)
Goa == <<"g", "o", "a">>
NorthGoa == <<"n", " ", "g", "o", "a">>
Pune == <<"p", "u">>

Gym == <<"g", "y", "m">>
Pool == <<"p", "o", "o", "l">>
NoAmenity == <<>>

Row(l, s, p, loc, am) ==
  [link |-> l, size |-> s, price |-> p, location |-> loc, amenities |-> am]

FilterRows ==
  {Row(l, s, p, loc, <<Gym>>) :
     l \in {1, 2}, s \in {1, 2}, p \in {105, 106}, loc \in {Goa, NorthGoa, Pune}}

FilterStores == UNION {[1..n -> FilterRows] : n \in 0..MaxRows}

RankAmenities == {<<NoAmenity>>, <<Gym>>, <<Gym, Pool>>}

RankStores ==
  UNION {{[i \in 1..n |-> Row(i, 1, 105, Goa, f[i])] : f \in [1..n -> RankAmenities]} :
           n \in 1..MaxRank}

ParRows ==
  {Row(1, 1, 105, Goa, <<Gym>>), Row(2, 1, 105, NorthGoa, <<NoAmenity>>),
   Row(1, 2, 106, Goa, <<Gym, Pool>>)}

ParStores == UNION {[1..n -> ParRows] : n \in 0..MaxPar}

QueryLocations ==
  {<<"G", "o", "a">>, <<"g", "o", "a", " ">>, <<"g", ".", "a">>}

Queries ==
  [size : {1}, price : {100, 101}, location : QueryLocations,
   amenities : {<<>>, <<Gym>>, <<Pool>>}]

\* extract_keywords_from_text when the response holds no {...}: every field
\* None, amenities [].  NoneNum stands for None where the query holds a number:
\* it equals no size of the store.
NoneNum == 0
NoQuery == [size |-> NoneNum, price |-> NoneNum, location |-> <<>>, amenities |-> <<>>]

NoResult == [kind |-> "none", msg |-> "", rows |-> <<>>]
Reason(m) == [kind |-> "reason", msg |-> m, rows |-> <<>>]
Table(rows) == [kind |-> "table", msg |-> "", rows |-> rows]
Raise(e) == [kind |-> "raise", msg |-> e, rows |-> <<>>]

(***************************************************************************)
(* The state machine.  df is the listing store; every call c has its query,*)
(* its position pc[c], its local df_filtered[c] and its return value.      *)
(***************************************************************************)
InitCalls ==
  /\ pc = [c \in CallIds |-> "start"]
  /\ query = [c \in CallIds |-> NoQuery]
  /\ df_filtered = [c \in CallIds |-> <<>>]
  /\ result = [c \in CallIds |-> NoResult]

Init == df \in FilterStores \cup RankStores /\ InitCalls

InitPar == df \in ParStores /\ InitCalls

\* the column lands in the store itself
StoreAfterAssignInPlace(store, rows) ==
  [i \in 1..Len(store) |->
     [c \in Columns \cup {"amenities_str"} |->
        IF c = "amenities_str" THEN Join(store[i].amenities) ELSE store[i][c]]]

\* The store after the amenities_str column has been assigned: the column is
\* set on df_filtered, which line 63 made a copy; df itself is left as it was.
StoreAfterAssign(store, rows) == store

Return(c, r) ==
  /\ result' = [result EXCEPT ![c] = r]
  /\ pc' = [pc EXCEPT ![c] = "done"]

Goto(c, rows, label) ==
  /\ df_filtered' = [df_filtered EXCEPT ![c] = rows]
  /\ pc' = [pc EXCEPT ![c] = label]
  /\ UNCHANGED result

\* __main__: result = extract_keywords_from_text(user_query), handed straight
\* to find_similar_properties.
Extract(c) ==
  /\ pc[c] = "start"
  /\ \E q \in Queries \cup {NoQuery} : query' = [query EXCEPT ![c] = q]
  /\ pc' = [pc EXCEPT ![c] = "size"]
  /\ UNCHANGED <<df, df_filtered, result>>

SizeStage(c) ==
  /\ pc[c] = "size"
  /\ LET rows == SizeFilter(df, query[c].size)
     IN IF rows = <<>>
        THEN Return(c, Reason(SizeReason)) /\ UNCHANGED df_filtered
        ELSE Goto(c, rows, "location")
  /\ UNCHANGED <<df, query>>

LocationStage(c) ==
  /\ pc[c] = "location"
  /\ LET rows == LocationFilter(df_filtered[c], query[c].location)
     IN IF rows = <<>>
        THEN Return(c, Reason(LocationReason)) /\ UNCHANGED df_filtered
        ELSE Goto(c, rows, "price")
  /\ UNCHANGED <<df, query>>

PriceStage(c) ==
  /\ pc[c] = "price"
  /\ LET rows == PriceFilter(df_filtered[c], query[c].price)
     IN IF rows = <<>>
        THEN Return(c, Reason(PriceReason)) /\ UNCHANGED df_filtered
        ELSE Goto(c, rows, "rank")
  /\ UNCHANGED <<df, query>>

\* The return value of lines 82-108 for the filter survivors `rows`.
Rank(rows, user_amenities) ==
  LET cand == WithAmenitiesStr(rows)
  IN IF Vocabulary(Corpus(cand, user_amenities)) = {}
     THEN Raise("ValueError: empty vocabulary")
     ELSE Table(Project(TopResults(cand, Indices(cand, user_amenities))))

RankStage(c) ==
  /\ pc[c] = "rank"
  /\ df_filtered' = [df_filtered EXCEPT ![c] = WithAmenitiesStr(df_filtered[c])]
  /\ df' = StoreAfterAssign(df, df_filtered[c])
  /\ result' = [result EXCEPT ![c] = Rank(df_filtered[c], query[c].amenities)]
  /\ pc' = [pc EXCEPT ![c] = "done"]
  /\ UNCHANGED query

Step(c) ==
  \/ Extract(c)
  \/ SizeStage(c)
  \/ LocationStage(c)
  \/ PriceStage(c)
  \/ RankStage(c)

Next == Step(1)

NextPar == \E c \in CallIds : Step(c)

Spec == Init /\ [][Next]_vars

SpecPar == InitPar /\ [][NextPar]_vars

\* find_similar_properties as one function of store and query
FindSimilarProperties(store, q) ==
  LET bySize == SizeFilter(store, q.size)
      byLoc == LocationFilter(bySize, q.location)
      byPrice == PriceFilter(byLoc, q.price)
  IN IF bySize = <<>> THEN Reason(SizeReason)
     ELSE IF byLoc = <<>> THEN Reason(LocationReason)
     ELSE IF byPrice = <<>> THEN Reason(PriceReason)
     ELSE Rank(byPrice, q.amenities)

(***************************************************************************)
(* Vocabulary of the properties.                                           *)
(***************************************************************************)
Ranked(c) == pc[c] = "done" /\ result[c].kind = "table"

\* the call went past the three filter stages
Survived(c) == pc[c] = "done" /\ result[c].kind \in {"table", "raise"}

InBand(r, q) == r.price * 100 <= q.price * BandPercent

AtBandEdge(r, q) == r.price * 100 = q.price * BandPercent

\* distance of every candidate of call c to the query, in the call's vector space
Distances(c) ==
  LET n == Len(df_filtered[c])
      m == TfidfMatrix(Corpus(df_filtered[c], query[c].amenities))
  IN [i \in 1..n |-> L2Sqr(m[i], m[n + 1])]

\* position of the candidate with link l among the filter survivors of call c
PosOf(c, l) == CHOOSE i \in 1..Len(df_filtered[c]) : df_filtered[c][i].link = l

NoTokens(text) == Tokenize(text) = <<>>

Min(a, b) == IF a < b THEN a ELSE b

\* literal substring
Contains(s, sub) ==
  \E off \in 0..(Len(s) - Len(sub)) : \A i \in 1..Len(sub) : s[off + i] = sub[i]

\* lower case, no leading or trailing blank, runs of blanks collapsed
Normalize(s) ==
  LET l == Lower(s)
      RECURSIVE squeeze(_, _)
      squeeze(i, prevBlank) ==
        IF i > Len(l) THEN <<>>
        ELSE IF l[i] = " "
             THEN (IF prevBlank THEN <<>> ELSE <<" ">>) \o squeeze(i + 1, TRUE)
             ELSE <<l[i]>> \o squeeze(i + 1, FALSE)
      t == squeeze(1, TRUE)
  IN IF t # <<>> /\ t[Len(t)] = " " THEN SubSeq(t, 1, Len(t) - 1) ELSE t

\* the code's location test on one listing
LocationMatches(loc, user_location) ==
  loc = Lower(user_location) \/ ReSearch(Lower(user_location), loc)

(***************************************************************************)
(* C1: every listing that survives the structured filter, and so every     *)
(* listing returned, has the query's size and a price <= max price * 1.05; *)
(* the bound is closed: a listing of the location stage's output priced    *)
(* exactly at max price * 1.05 survives.                                   *)
(***************************************************************************)
C1_SizeAndPriceBand ==
  \A c \in CallIds :
    LET q == query[c]
        located == LocationFilter(SizeFilter(df, q.size), q.location)
        pricedOut == pc[c] = "done" /\ result[c] = Reason(PriceReason)
        kept == IF pricedOut THEN <<>> ELSE df_filtered[c]
    IN (pc[c] = "rank" \/ Survived(c) \/ pricedOut) =>
         /\ \A i \in 1..Len(kept) : kept[i].size = q.size /\ InBand(kept[i], q)
         /\ \A i \in 1..Len(result[c].rows) :
              result[c].rows[i].size = q.size /\ InBand(result[c].rows[i], q)
         /\ \A i \in 1..Len(located) :
              AtBandEdge(located[i], q) => located[i].link \in LinkSet(kept)

C1_Witness ==
  \E c \in CallIds :
    /\ Ranked(c)
    /\ \E i \in 1..Len(result[c].rows) : AtBandEdge(result[c].rows[i], query[c])
    /\ \E i \in 1..Len(df) : df[i].size = query[c].size /\ ~InBand(df[i], query[c])

(***************************************************************************)
(* C2: the stages run in the order size, location, price and the reason of *)
(* an empty result is that of the first stage that leaves no listing; no   *)
(* reason is returned when no stage is empty.                              *)
(***************************************************************************)
C2_FirstEmptyStage ==
  \A c \in CallIds :
    LET q == query[c]
        noSize == \A i \in 1..Len(df) : df[i].size # q.size
        noLocation ==
          \A i \in 1..Len(df) :
            df[i].size = q.size => ~LocationMatches(df[i].location, q.location)
        located == LocationFilter(SizeFilter(df, q.size), q.location)
        noPrice == \A i \in 1..Len(located) : ~InBand(located[i], q)
    IN pc[c] = "done" =>
         /\ noSize => result[c] = Reason(SizeReason)
         /\ (~noSize /\ noLocation) => result[c] = Reason(LocationReason)
         /\ (~noSize /\ ~noLocation /\ noPrice) => result[c] = Reason(PriceReason)
         /\ (~noSize /\ ~noLocation /\ ~noPrice) => result[c].kind # "reason"

\* the location reason is given although no size-matched listing is in the
\* price band either
C2_Witness ==
  \E c \in CallIds :
    /\ pc[c] = "done"
    /\ result[c] = Reason(LocationReason)
    /\ \A i \in 1..Len(df) : df[i].size = query[c].size => ~InBand(df[i], query[c])

(***************************************************************************)
(* C3: a returned ResultSet holds at most 5 listings and no link twice,    *)
(* also when the store holds several rows with the same link.              *)
(***************************************************************************)
C3_AtMostFiveDistinct ==
  \A c \in CallIds :
    Ranked(c) =>
      /\ Len(result[c].rows) <= TopN
      /\ \A i, j \in 1..Len(result[c].rows) :
           result[c].rows[i].link = result[c].rows[j].link => i = j

\* two rows of the store share a link and both pass size, location and price
C3_Witness ==
  \E c \in CallIds :
    /\ Ranked(c)
    /\ \E i, j \in 1..Len(df) :
         /\ i < j
         /\ df[i].link = df[j].link
         /\ \A k \in {i, j} :
              /\ df[k].size = query[c].size
              /\ LocationMatches(df[k].location, query[c].location)
              /\ InBand(df[k], query[c])

(***************************************************************************)
(* C4: ranking is distance-monotonic: a listing that comes before another  *)
(* in the ResultSet is not farther from the query's amenity vector, also   *)
(* when fewer than 10 candidates survive and the search pads with -1.      *)
(***************************************************************************)
C4_DistanceMonotonic ==
  \A c \in CallIds :
    Ranked(c) =>
      LET d == Distances(c)
          rows == result[c].rows
      IN \A i, j \in 1..Len(rows) :
           i < j => d[PosOf(c, rows[i].link)] <= d[PosOf(c, rows[j].link)]

\* fewer than 10 candidates, and the nearest one is not the first survivor
C4_Witness ==
  \E c \in CallIds :
    /\ Ranked(c)
    /\ Len(df_filtered[c]) < SearchK
    /\ Len(result[c].rows) >= 3
    /\ LET d == Distances(c)
           rows == result[c].rows
       IN /\ PosOf(c, rows[1].link) # 1
          /\ d[PosOf(c, rows[1].link)] < d[PosOf(c, rows[Len(rows)].link)]

(***************************************************************************)
(* C5 as stated: with an empty query amenity sequence all candidates are   *)
(* at the same distance and the ResultSet is the first up-to-5 filter      *)
(* survivors in filter order.                                              *)
(***************************************************************************)
C5_AsStated ==
  \A c \in CallIds :
    (Ranked(c) /\ query[c].amenities = <<>>) =>
      /\ \A i, j \in 1..Len(df_filtered[c]) : Distances(c)[i] = Distances(c)[j]
      /\ Links(result[c].rows) = Links(HeadRows(df_filtered[c], TopN))

(***************************************************************************)
(* C5 amended: with an empty query amenity sequence the candidates without *)
(* an amenity token are at distance 0 and come before every candidate with *)
(* tokens (which is at a positive distance); candidates with the same      *)
(* amenity text tie and keep filter order, so the ResultSet is the first   *)
(* up-to-5 survivors in filter order when all candidates have the same     *)
(* amenity text; when no candidate has a token either, the vectorizer      *)
(* raises on the empty vocabulary and no ResultSet is returned.            *)
(***************************************************************************)
C5_EmptyQueryOrder ==
  \A c \in CallIds :
    (Survived(c) /\ query[c].amenities = <<>>) =>
      LET cand == df_filtered[c]
          n == Len(cand)
          bare(i) == NoTokens(cand[i].amenities_str)
          rows == result[c].rows
          pos(k) == PosOf(c, rows[k].link)
      IN IF \A i \in 1..n : bare(i)
         THEN result[c].kind = "raise"
         ELSE /\ result[c].kind = "table"
              /\ \A i \in 1..n : bare(i) <=> Distances(c)[i] = 0
              /\ \A a, b \in 1..Len(rows) : (a < b /\ bare(pos(b))) => bare(pos(a))
              /\ \A i \in 1..n :
                   (bare(i) /\ cand[i].link \notin LinkSet(rows)) =>
                     \A k \in 1..Len(rows) : bare(pos(k))
              /\ \A a, b \in 1..Len(rows) :
                   (a < b /\ cand[pos(a)].amenities_str = cand[pos(b)].amenities_str)
                     => pos(a) < pos(b)
              /\ (\A i \in 1..n : cand[i].amenities_str = cand[1].amenities_str)
                   => Links(rows) = Links(HeadRows(cand, TopN))

\* empty query, a candidate with amenities ahead of one without in filter
\* order, and the ResultSet puts the one without first
C5_Witness ==
  \E c \in CallIds :
    /\ Ranked(c)
    /\ query[c].amenities = <<>>
    /\ Len(df_filtered[c]) >= 3
    /\ ~NoTokens(df_filtered[c][1].amenities_str)
    /\ NoTokens(df_filtered[c][PosOf(c, result[c].rows[1].link)].amenities_str)
    /\ \E i, j \in 1..Len(df_filtered[c]) :
         /\ i < j
         /\ df_filtered[c][i].amenities_str = df_filtered[c][j].amenities_str
         /\ {df_filtered[c][i].link, df_filtered[c][j].link} \subseteq LinkSet(result[c].rows)

(***************************************************************************)
(* C6 as stated: when the extractor could not extract (all fields None,    *)
(* amenities empty) the orchestrator returns at once an empty ResultSet    *)
(* with reason "could not parse query"; the query never enters the filter  *)
(* stages and is never reported as a size, location or price mismatch.     *)
(***************************************************************************)
C6_UnparsedQueryRejected ==
  \A c \in CallIds :
    (pc[c] # "start" /\ query[c] = NoQuery) =>
      /\ pc[c] = "done"
      /\ result[c] = Reason("could not parse query")

(***************************************************************************)
(* C7: a call never changes the listing store, and every call, whatever    *)
(* other call runs interleaved with it, returns what find_similar_         *)
(* properties returns for the store and its query alone; so two calls with *)
(* the same query return the same ResultSet.                               *)
(***************************************************************************)
C7_PureAndIsolated ==
  [][/\ df' = df
     /\ \A c \in CallIds :
          pc'[c] = "done" => result'[c] = FindSimilarProperties(df, query'[c])
     /\ \A c, e \in CallIds :
          (pc'[c] = "done" /\ pc'[e] = "done" /\ query'[c] = query'[e])
            => result'[c] = result'[e]]_vars

\* both calls ran to the end with the same query on a store that ranks
C7_Witness ==
  /\ pc[1] = "done" /\ pc[2] = "done"
  /\ query[1] = query[2]
  /\ result[1].kind = "table"
  /\ Len(result[2].rows) >= 2

(***************************************************************************)
(* C8 as stated: a size-matched listing whose location equals, or          *)
(* contains, the query location once both are lower-cased and their        *)
(* whitespace is normalised passes the location stage.                     *)
(***************************************************************************)
C8_NormalizedLocationPasses ==
  \A c \in CallIds :
    LET q == query[c]
        want == {i \in 1..Len(df) :
                   /\ df[i].size = q.size
                   /\ Contains(Normalize(df[i].location), Normalize(q.location))}
    IN /\ pc[c] = "price" => \A i \in want : df[i].link \in LinkSet(df_filtered[c])
       /\ (pc[c] = "done" /\ result[c] = Reason(LocationReason)) => want = {}

(***************************************************************************)
(* C9 as stated: the location stage outputs the union of the exact-match   *)
(* set and the substring-match set, each link once: every exact match is   *)
(* in it, exact matches precede listings that match only partially, and of *)
(* rows sharing a link the first in exact-then-partial order is kept.      *)
(***************************************************************************)
C9_LocationUnion ==
  \A c \in CallIds :
    pc[c] = "price" =>
      LET q == query[c]
          sized == SizeFilter(df, q.size)
          isExact(r) == r.location = Lower(q.location)
          isSub(r) == Contains(r.location, Lower(q.location))
          exact == SelectSeq(sized, isExact)
          sub == SelectSeq(sized, isSub)
          out == df_filtered[c]
          first(l) == LET both == exact \o sub
                      IN both[CHOOSE i \in 1..Len(both) :
                                /\ both[i].link = l
                                /\ \A j \in 1..(i - 1) : both[j].link # l]
      IN /\ LinkSet(out) = LinkSet(exact) \cup LinkSet(sub)
         /\ \A i, j \in 1..Len(out) : out[i].link = out[j].link => i = j
         /\ \A i, j \in 1..Len(out) :
              (isExact(out[j]) /\ ~isExact(out[i])) => j < i
         /\ \A i \in 1..Len(out) : out[i] = first(out[i].link)

(***************************************************************************)
(* Lemma: the part of the location-union property that the code meets.     *)
(* With "matches partially" read as the code computes it (a regular-       *)
(* expression search of the lower-cased query location), the output holds  *)
(* every exact and every partial match's link once, exact matches first,   *)
(* and of rows sharing a link the first in exact-then-partial order.       *)
(***************************************************************************)
LocationStageOrder ==
  \A c \in CallIds :
    pc[c] = "price" =>
      LET q == query[c]
          sized == SizeFilter(df, q.size)
          isExact(r) == r.location = Lower(q.location)
          isPartial(r) == ReSearch(Lower(q.location), r.location)
          exact == SelectSeq(sized, isExact)
          partial == SelectSeq(sized, isPartial)
          out == df_filtered[c]
          first(l) == LET both == exact \o partial
                      IN both[CHOOSE i \in 1..Len(both) :
                                /\ both[i].link = l
                                /\ \A j \in 1..(i - 1) : both[j].link # l]
      IN /\ LinkSet(out) = LinkSet(exact) \cup LinkSet(partial)
         /\ \A i, j \in 1..Len(out) : out[i].link = out[j].link => i = j
         /\ \A i, j \in 1..Len(out) :
              (isExact(out[j]) /\ ~isExact(out[i])) => j < i
         /\ \A i \in 1..Len(out) : out[i] = first(out[i].link)


(***************************************************************************)
(* C10 as stated: whenever n >= 1 listings survive the filter the          *)
(* ResultSet holds exactly min(5, n) listings, all of them survivors.      *)
(***************************************************************************)
C10_AsStated ==
  \A c \in CallIds :
    Survived(c) =>
      /\ result[c].kind = "table"
      /\ Len(result[c].rows) = Min(TopN, Len(df_filtered[c]))
      /\ LinkSet(result[c].rows) \subseteq LinkSet(df_filtered[c])

(***************************************************************************)
(* Lemma: the part of the min(5, n) property that the code meets.  When a  *)
(* candidate or the query has at least one amenity token, the ResultSet    *)
(* holds exactly min(5, n) of the n >= 1 survivors (every survivor when    *)
(* n <= 5), the -1 padding of the search notwithstanding; when neither has *)
(* a token the vectorizer raises on the empty vocabulary.                  *)
(***************************************************************************)
MinFiveUnlessNoVocabulary ==
  \A c \in CallIds :
    Survived(c) =>
      LET cand == df_filtered[c]
          n == Len(cand)
          noVocabulary ==
            /\ NoTokens(Join(query[c].amenities))
            /\ \A i \in 1..n : NoTokens(Join(cand[i].amenities))
      IN /\ n >= 1
         /\ noVocabulary => result[c].kind = "raise"
         /\ ~noVocabulary =>
              /\ result[c].kind = "table"
              /\ Len(result[c].rows) = Min(TopN, n)
              /\ \A k \in 1..Len(result[c].rows) :
                   \E i \in 1..n : result[c].rows[k] = Project(cand)[i]
              /\ n <= TopN => LinkSet(result[c].rows) = LinkSet(cand)

\* fewer than 10 survivors, more than 5 of them: the search pads with -1
MinFiveWitness ==
  \E c \in CallIds :
    /\ Ranked(c)
    /\ Len(df_filtered[c]) > TopN
    /\ Len(df_filtered[c]) < SearchK
    /\ Len(result[c].rows) = TopN

====
